---- MODULE Spec2Model ----
(***************************************************************************)
(* Model of update_image_dates (src/update_image_dates.py): one run of the *)
(* function over a directory, from its arguments to its return or to the   *)
(* exception that leaves it.  Path strings are sequences of one-character  *)
(* strings; instants are microseconds since the model's epoch (datetime    *)
(* has microsecond resolution); the arguments handed to touch and SetFile  *)
(* are whole seconds, which is all their strftime formats keep.            *)
(***************************************************************************)
EXTENDS Integers, Sequences, FiniteSets, TLC

VARIABLES
    folder,             \* folder_path argument: the string and what os.path.isdir answers
    increment_minutes,  \* increment_minutes argument
    extensions,         \* extensions argument: NoneValue or a set of strings
    start_date,         \* start_date argument, rebound to a datetime at lines 55/58
    entries,            \* the directory's children: [name, is_file]
    unscanned,          \* children os.scandir has not yet yielded
    valid_extensions,   \* local of line 36
    image_files,        \* local list of lines 39-47
    current_date,       \* local of line 68 (microseconds), NoDate before
    i,                  \* enumerate counter of line 71 (0 before the loop)
    calls,              \* every subprocess.run issued, in order, with its result
    fs,                 \* the files' timestamps: path -> [mtime, birthtime] in seconds
    output,             \* the lines printed
    outcome,            \* how the run ended
    pc                  \* position in the function

vars == <<folder, increment_minutes, extensions, start_date, entries, unscanned,
          valid_extensions, image_files, current_date, i, calls, fs, output,
          outcome, pc>>

inputs == <<folder, increment_minutes, extensions, entries>>

(***************************************************************************)
(* Bounds of the model.                                                    *)
(***************************************************************************)
MaxEntries == 3        \* children in the directory
MaxIncrement == 2      \* largest increment_minutes tried
HorizonMinutes == 8    \* datetime.max lies this many minutes after the model's epoch

(***************************************************************************)
(* Time units.                                                             *)
(***************************************************************************)
MicrosPerSecond == 1000000
SecondsPerMinute == 60
MicrosPerMinute == SecondsPerMinute * MicrosPerSecond
DateTimeMax == HorizonMinutes * MicrosPerMinute - 1

NoneValue == [type |-> "NoneType"]
NoDate == -1
Original == -1          \* a timestamp of a file that no call has changed

(***************************************************************************)
(* Characters and strings.                                                 *)
(***************************************************************************)
UpperCase == <<"A","B","C","D","E","F","G","H","I","J","K","L","M",
               "N","O","P","Q","R","S","T","U","V","W","X","Y","Z">>
LowerCase == <<"a","b","c","d","e","f","g","h","i","j","k","l","m",
               "n","o","p","q","r","s","t","u","v","w","x","y","z">>
Digits == <<"0","1","2","3","4","5","6","7","8","9">>

IndexIn(seq, c) == IF \E k \in DOMAIN seq : seq[k] = c
                   THEN CHOOSE k \in DOMAIN seq : seq[k] = c
                   ELSE 0

\* code point of a character
Ord(c) ==
    IF IndexIn(UpperCase, c) > 0 THEN 64 + IndexIn(UpperCase, c)
    ELSE IF IndexIn(LowerCase, c) > 0 THEN 96 + IndexIn(LowerCase, c)
    ELSE IF IndexIn(Digits, c) > 0 THEN 47 + IndexIn(Digits, c)
    ELSE IF c = "." THEN 46
    ELSE IF c = "/" THEN 47
    ELSE 95

\* str.lower() on one character and on a string
LowerChar(c) == IF IndexIn(UpperCase, c) > 0 THEN LowerCase[IndexIn(UpperCase, c)] ELSE c
Lower(s) == [k \in DOMAIN s |-> LowerChar(s[k])]

LastIndexOf(s, c) == IF \E k \in DOMAIN s : s[k] = c
                     THEN CHOOSE k \in DOMAIN s : s[k] = c /\ \A m \in DOMAIN s : s[m] = c => m <= k
                     ELSE 0

\* os.path.splitext(p)[1]: from the last dot, unless only dots precede it in the last component
SplitExt(p) ==
    LET sepIndex == LastIndexOf(p, "/")
        dotIndex == LastIndexOf(p, ".")
    IN IF dotIndex > sepIndex /\ \E k \in (sepIndex + 1)..(dotIndex - 1) : p[k] # "."
       THEN SubSeq(p, dotIndex, Len(p))
       ELSE <<>>

\* os.path.basename(p)
BaseName(p) == SubSeq(p, LastIndexOf(p, "/") + 1, Len(p))

\* needle in haystack, for strings
Contains(haystack, needle) ==
    \E k \in 1..(Len(haystack) - Len(needle) + 1) :
        SubSeq(haystack, k, k + Len(needle) - 1) = needle

\* entry.path: os.path.join(folder_path, entry.name)
JoinPath(dir, name) ==
    IF dir = <<>> \/ dir[Len(dir)] = "/" THEN dir \o name ELSE dir \o <<"/">> \o name

\* a < b for Python strings: by code point, a proper prefix first
StrLess_CaseInsensitive(a, b) ==
    LET la == Lower(a)
        lb == Lower(b)
        n == IF Len(a) < Len(b) THEN Len(a) ELSE Len(b)
    IN IF \E k \in 1..n : la[k] # lb[k]
       THEN LET d == CHOOSE k \in 1..n : la[k] # lb[k] /\ \A m \in 1..(k - 1) : la[m] = lb[m]
            IN Ord(la[d]) < Ord(lb[d])
       ELSE Len(a) < Len(b)

StrLess(a, b) ==
    LET n == IF Len(a) < Len(b) THEN Len(a) ELSE Len(b)
    IN IF \E k \in 1..n : a[k] # b[k]
       THEN LET d == CHOOSE k \in 1..n : a[k] # b[k] /\ \A m \in 1..(k - 1) : a[m] = b[m]
            IN Ord(a[d]) < Ord(b[d])
       ELSE Len(a) < Len(b)

\* list.sort(): insertion of each element in turn after the elements not greater than it
RECURSIVE InsertSorted(_, _)
InsertSorted(x, s) ==
    IF s = <<>> THEN <<x>>
    ELSE IF StrLess(x, s[1]) THEN <<x>> \o s
    ELSE <<s[1]>> \o InsertSorted(x, Tail(s))

RECURSIVE SortPaths(_)
SortPaths(s) ==
    IF s = <<>> THEN <<>>
    ELSE InsertSorted(s[Len(s)], SortPaths(SubSeq(s, 1, Len(s) - 1)))

Range(s) == {s[k] : k \in DOMAIN s}

(***************************************************************************)
(* The arguments and the directories the runs are tried on.                *)
(***************************************************************************)
IMAGE_EXTENSIONS ==
    { <<".","j","p","g">>, <<".","j","p","e","g">>, <<".","p","n","g">>,
      <<".","t","i","f","f">>, <<".","t","i","f">>, <<".","h","e","i","c">>,
      <<".","n","e","f">>, <<".","c","r","2">>, <<".","a","r","w">> }

Folders ==
    { [path |-> <<"p">>, isdir |-> TRUE],
      [path |-> <<"q","/">>, isdir |-> TRUE],
      [path |-> <<"x">>, isdir |-> FALSE] }

ExtensionArgs ==
    { NoneValue,
      [type |-> "set", members |-> { <<".","b","m","p">>, <<".","p","n","g">> }],
      [type |-> "set", members |-> { <<".","J","P","G">> }] }

EntryPool ==
    { [name |-> <<"b",".","j","p","g">>, is_file |-> TRUE],
      [name |-> <<"a",".","J","P","G">>, is_file |-> TRUE],
      [name |-> <<"B",".","j","p","g">>, is_file |-> TRUE],
      [name |-> <<"i","m","g","1","0",".","j","p","g">>, is_file |-> TRUE],
      [name |-> <<"i","m","g","9",".","j","p","g">>, is_file |-> TRUE],
      [name |-> <<"d",".","b","m","p">>, is_file |-> TRUE],
      [name |-> <<"n","o","e","x","t">>, is_file |-> TRUE],
      [name |-> <<".","j","p","g">>, is_file |-> TRUE],
      [name |-> <<"e",".","j","p","g">>, is_file |-> FALSE],
      [name |-> <<"S","e","t","F","i","l","e",".","p","n","g">>, is_file |-> TRUE] }

\* start_date: None, a string (well formed for the format of line 58 or not), a datetime
StartDateArgs ==
    { NoneValue,
      [type |-> "str", wellformed |-> TRUE, secs |-> 61],
      [type |-> "str", wellformed |-> FALSE, secs |-> 0],
      [type |-> "datetime", micros |-> DateTimeMax - 2 * MicrosPerMinute + 1] }

\* what datetime.now() may answer
ClockReadings == { 1500000 }

\* how a subprocess.run(..., check=True) may end: exit 0, a non-zero exit,
\* or no such executable (an OSError raised before anything runs)
Results == { "ok", "CalledProcessError", "FileNotFoundError" }

PathOf(e) == JoinPath(folder.path, e.name)

Message(m) == [msg |-> m, path |-> <<>>, date |-> NoDate, i |-> 0, total |-> 0]

Init ==
    /\ folder \in Folders
    /\ increment_minutes \in (-1)..MaxIncrement
    /\ extensions \in ExtensionArgs
    /\ start_date \in StartDateArgs
    /\ entries \in { S \in SUBSET EntryPool : Cardinality(S) <= MaxEntries }
    /\ unscanned = entries
    /\ valid_extensions = {}
    /\ image_files = <<>>
    /\ current_date = NoDate
    /\ i = 0
    /\ calls = <<>>
    /\ fs = [p \in { JoinPath(folder.path, e.name) : e \in entries } |->
                [mtime |-> Original, birthtime |-> Original]]
    /\ output = <<>>
    /\ outcome = "Running"
    /\ pc = "validate"

(***************************************************************************)
(* Lines 27-36: the two precondition checks and the choice of the filter.  *)
(***************************************************************************)
IncrementRejected_NegativeOnly(inc) == inc < 0

IncrementRejected(inc) == inc <= 0

Validate ==
    /\ pc = "validate"
    /\ IF ~folder.isdir
       THEN /\ output' = Append(output, Message("Error: not a valid directory"))
            /\ outcome' = "ConfigError"
            /\ pc' = "done"
            /\ UNCHANGED valid_extensions
       ELSE IF IncrementRejected(increment_minutes)
       THEN /\ output' = Append(output, Message("Error: increment_minutes must be positive"))
            /\ outcome' = "ConfigError"
            /\ pc' = "done"
            /\ UNCHANGED valid_extensions
       ELSE /\ valid_extensions' = IF extensions = NoneValue THEN IMAGE_EXTENSIONS
                                                              ELSE extensions.members
            /\ pc' = "scan"
            /\ UNCHANGED <<output, outcome>>
    /\ UNCHANGED <<inputs, start_date, unscanned, image_files, current_date, i, calls, fs>>

(***************************************************************************)
(* Lines 42-45: os.scandir yields the children in an order of its own;     *)
(* each is kept when it is a file whose lowercased extension is listed.    *)
(***************************************************************************)
PassesFilter_NoLower(e, exts) == e.is_file /\ SplitExt(e.name) \in exts

PassesFilter(e, exts) == e.is_file /\ Lower(SplitExt(e.name)) \in exts

ScanEntry ==
    /\ pc = "scan"
    /\ \E e \in unscanned :
          /\ unscanned' = unscanned \ {e}
          /\ image_files' = IF PassesFilter(e, valid_extensions)
                            THEN Append(image_files, PathOf(e))
                            ELSE image_files
    /\ UNCHANGED <<inputs, start_date, valid_extensions, current_date, i, calls, fs,
                   output, outcome, pc>>

\* Line 47
SortFiles ==
    /\ pc = "scan"
    /\ unscanned = {}
    /\ image_files' = SortPaths(image_files)
    /\ pc' = "empty_check"
    /\ UNCHANGED <<inputs, start_date, unscanned, valid_extensions, current_date, i,
                   calls, fs, output, outcome>>

\* Lines 49-51
EmptyCheck_Skipped ==
    /\ pc = "empty_check"
    /\ pc' = "resolve"
    /\ UNCHANGED <<inputs, start_date, unscanned, valid_extensions, image_files,
                   current_date, i, calls, fs, output, outcome>>

EmptyCheck ==
    /\ pc = "empty_check"
    /\ IF image_files = <<>>
       THEN /\ output' = Append(output, Message("No image files found in the directory"))
            /\ outcome' = "EmptyStop"
            /\ pc' = "done"
       ELSE /\ pc' = "resolve"
            /\ UNCHANGED <<output, outcome>>
    /\ UNCHANGED <<inputs, start_date, unscanned, valid_extensions, image_files,
                   current_date, i, calls, fs>>

(***************************************************************************)
(* Lines 54-69: the start date becomes a datetime, the three header lines  *)
(* are printed and current_date starts at it.                              *)
(***************************************************************************)
\* datetime.strptime(text, "%Y-%m-%d %H:%M:%S"): a whole second
StrpTime(text) == [type |-> "datetime", micros |-> text.secs * MicrosPerSecond]

Header(start) ==
    << [msg |-> "Found image files", path |-> <<>>, date |-> NoDate, i |-> 0,
        total |-> Len(image_files)],
       [msg |-> "Starting date", path |-> <<>>, date |-> start.micros, i |-> 0, total |-> 0],
       [msg |-> "Increment minutes", path |-> <<>>, date |-> NoDate,
        i |-> increment_minutes, total |-> 0] >>

ResolveStart ==
    /\ pc = "resolve"
    /\ IF start_date.type = "str" /\ ~start_date.wellformed
       THEN /\ output' = Append(output, Message("Invalid date format. Use YYYY-MM-DD HH:MM:SS"))
            /\ outcome' = "ConfigError"
            /\ pc' = "done"
            /\ UNCHANGED <<start_date, current_date>>
       ELSE /\ \E now \in ClockReadings :
                 start_date' = IF start_date.type = "NoneType"
                               THEN [type |-> "datetime", micros |-> now]
                               ELSE IF start_date.type = "str" THEN StrpTime(start_date)
                               ELSE start_date
            /\ output' = output \o Header(start_date')
            /\ current_date' = start_date'.micros
            /\ pc' = "loop"
            /\ UNCHANGED outcome
    /\ UNCHANGED <<inputs, unscanned, valid_extensions, image_files, i, calls, fs>>

(***************************************************************************)
(* Lines 71-95: the loop.                                                  *)
(***************************************************************************)
\* Line 71: the next file, or the end of the list and of the function
LoopNext ==
    /\ pc = "loop"
    /\ IF i < Len(image_files)
       THEN /\ i' = i + 1
            /\ pc' = "touch"
            /\ UNCHANGED outcome
       ELSE /\ outcome' = "Completed"
            /\ pc' = "done"
            /\ UNCHANGED i
    /\ UNCHANGED <<inputs, start_date, unscanned, valid_extensions, image_files,
                   current_date, calls, fs, output>>

\* strftime("%Y%m%d%H%M.%S") and strftime("%m/%d/%Y %H:%M:%S"): the instant to the second
StrfTime(d) == d \div MicrosPerSecond

\* what the utility does to the file: touch -mt sets the modification time,
\* SetFile -d the creation time; a run that fails changes nothing
ApplyCall_EvenIfFailed(f, cmd, path, secs, r) ==
    IF cmd = "touch" THEN [f EXCEPT ![path].mtime = secs]
    ELSE [f EXCEPT ![path].birthtime = secs]

ApplyCall(f, cmd, path, secs, r) ==
    IF r # "ok" THEN f
    ELSE IF cmd = "touch" THEN [f EXCEPT ![path].mtime = secs]
    ELSE [f EXCEPT ![path].birthtime = secs]

Call(cmd, path, secs, r) == [cmd |-> cmd, path |-> path, date |-> secs, result |-> r]

\* Lines 89-95: the handler; str(e) names the command line, so it holds
\* "SetFile" when the command or the file's path does; break and return
\* both leave the function
OnCalledProcessError_Continue(cmd, path) ==
    /\ output' = Append(output, [msg |-> "Error updating", path |-> path, date |-> NoDate,
                                 i |-> 0, total |-> 0])
    /\ pc' = "loop"
    /\ UNCHANGED outcome

OnCalledProcessError(cmd, path) ==
    /\ output' = Append(output, [msg |-> "Error updating", path |-> path, date |-> NoDate,
                                 i |-> 0, total |-> 0])
                 \o (IF cmd = "SetFile" \/ Contains(path, <<"S","e","t","F","i","l","e">>)
                     THEN << Message("Note: SetFile command not found"),
                             Message("Install with: xcode-select --install") >>
                     ELSE <<>>)
    /\ outcome' = "AbortedOnError"
    /\ pc' = "done"

\* any other exception is not caught and leaves the function
Propagate(exc) ==
    /\ outcome' = exc
    /\ pc' = "done"
    /\ UNCHANGED output

AfterCall(cmd, path, r, next) ==
    IF r = "ok" THEN pc' = next /\ UNCHANGED <<output, outcome>>
    ELSE IF r = "CalledProcessError" THEN OnCalledProcessError(cmd, path)
    ELSE Propagate(r)

\* Line 78
Touch_Unchecked ==
    /\ pc = "touch"
    /\ \E r \in Results :
          LET path == image_files[i]
              secs == StrfTime(current_date)
          IN /\ calls' = Append(calls, Call("touch", path, secs, r))
             /\ fs' = ApplyCall(fs, "touch", path, secs, r)
             /\ pc' = "setfile"
    /\ UNCHANGED <<inputs, start_date, unscanned, valid_extensions, image_files,
                   current_date, i, output, outcome>>

Touch ==
    /\ pc = "touch"
    /\ \E r \in Results :
          LET path == image_files[i]
              secs == StrfTime(current_date)
          IN /\ calls' = Append(calls, Call("touch", path, secs, r))
             /\ fs' = ApplyCall(fs, "touch", path, secs, r)
             /\ AfterCall("touch", path, r, "setfile")
    /\ UNCHANGED <<inputs, start_date, unscanned, valid_extensions, image_files,
                   current_date, i>>

\* Line 81
SetFile ==
    /\ pc = "setfile"
    /\ \E r \in Results :
          LET path == image_files[i]
              secs == StrfTime(current_date)
          IN /\ calls' = Append(calls, Call("SetFile", path, secs, r))
             /\ fs' = ApplyCall(fs, "SetFile", path, secs, r)
             /\ AfterCall("SetFile", path, r, "progress")
    /\ UNCHANGED <<inputs, start_date, unscanned, valid_extensions, image_files,
                   current_date, i>>

\* Line 88: current_date += timedelta(minutes=increment_minutes)
AdvanceDate_Seconds(d, inc) == d + inc * MicrosPerSecond

AdvanceDate(d, inc) == d + inc * MicrosPerMinute

\* Lines 84-88: the progress line, then the advance, which raises
\* OverflowError past datetime.max
Progress ==
    /\ pc = "progress"
    /\ output' = Append(output, [msg |-> "Updated", path |-> BaseName(image_files[i]),
                                 date |-> StrfTime(current_date), i |-> i,
                                 total |-> Len(image_files)])
    /\ IF AdvanceDate(current_date, increment_minutes) > DateTimeMax
       THEN /\ outcome' = "OverflowError"
            /\ pc' = "done"
            /\ UNCHANGED current_date
       ELSE /\ current_date' = AdvanceDate(current_date, increment_minutes)
            /\ pc' = "loop"
            /\ UNCHANGED outcome
    /\ UNCHANGED <<inputs, start_date, unscanned, valid_extensions, image_files, i,
                   calls, fs>>

Next ==
    \/ Validate
    \/ ScanEntry
    \/ SortFiles
    \/ EmptyCheck
    \/ ResolveStart
    \/ LoopNext
    \/ Touch
    \/ SetFile
    \/ Progress

Spec == Init /\ [][Next]_vars

TypeOK ==
    /\ pc \in {"validate", "scan", "empty_check", "resolve", "loop", "touch", "setfile",
               "progress", "done"}
    /\ outcome \in {"Running", "ConfigError", "EmptyStop", "Completed", "AbortedOnError",
                    "FileNotFoundError", "OverflowError"}
    /\ (pc = "done") <=> (outcome # "Running")
    /\ i \in 0..Len(image_files)

(***************************************************************************)
(* Vocabulary of the properties.                                           *)
(***************************************************************************)
N == Len(image_files)
Resolved == current_date # NoDate
Finished == pc = "done"
LastCall == calls[Len(calls)]
CallFailed == Finished /\ calls # <<>> /\ LastCall.result # "ok"
PositionOf(path) == CHOOSE k \in 1..N : image_files[k] = path

ActiveExtensions == IF extensions = NoneValue THEN IMAGE_EXTENSIONS ELSE extensions.members
Selected == { e \in entries : e.is_file /\ Lower(SplitExt(e.name)) \in ActiveExtensions }

\* the instant of the file at sorted position k (from 1), and the same to the second
AssignedMicros(k) == start_date.micros + (k - 1) * increment_minutes * MicrosPerMinute
AssignedSecs(k) == AssignedMicros(k) \div MicrosPerSecond

Updated(k) == fs[image_files[k]] = [mtime |-> AssignedSecs(k), birthtime |-> AssignedSecs(k)]
Untouched(k) == fs[image_files[k]] = [mtime |-> Original, birthtime |-> Original]
OnlyModified(k) == fs[image_files[k]] = [mtime |-> AssignedSecs(k), birthtime |-> Original]

HasConfigError ==
    \/ ~folder.isdir
    \/ increment_minutes <= 0
    \/ start_date.type = "str" /\ ~start_date.wellformed

ConfigMessages ==
    { "Error: not a valid directory", "Error: increment_minutes must be positive",
      "Invalid date format. Use YYYY-MM-DD HH:MM:SS" }

ProgressLines == { k \in DOMAIN output : output[k].msg = "Updated" }
FilesDone == { k \in DOMAIN calls : calls[k].cmd = "SetFile" /\ calls[k].result = "ok" }

\* a before b in ascending code-point order
CodePointBefore(a, b) ==
    \E d \in 1..(Len(a) + 1) :
        /\ d <= Len(b)
        /\ \A m \in 1..(d - 1) : a[m] = b[m]
        /\ d <= Len(a) => Ord(a[d]) < Ord(b[d])

Img10 == <<"i","m","g","1","0",".","j","p","g">>
Img9 == <<"i","m","g","9",".","j","p","g">>

\* C1: once a timestamp-setting call has failed, no further call of either
\* kind is issued in the run: a failed call is the last call of the run.
C1_NoCallAfterFailure ==
    \A j \in DOMAIN calls : calls[j].result # "ok" => j = Len(calls)

C1_Witness ==
    /\ CallFailed
    /\ N >= 2
    /\ LastCall.path = image_files[1]

\* C2 as stated: when the run ends on a failed call for the file at position
\* k, the files before k carry their assigned timestamp and the file at k and
\* the files after it have no timestamp changed.
C2_AsStated ==
    CallFailed =>
        /\ \A j \in 1..(i - 1) : Updated(j)
        /\ \A j \in i..N : Untouched(j)

\* C2 amended: the files before k carry their assigned timestamp (to the
\* second) as modification and creation time, the files after k are
\* untouched, and the file at k is untouched when its modification-time call
\* failed but has its modification time set, and its creation time not, when
\* its creation-time call failed.
C2_PartialState ==
    CallFailed =>
        /\ LastCall.path = image_files[i]
        /\ \A j \in 1..(i - 1) : Updated(j)
        /\ \A j \in (i + 1)..N : Untouched(j)
        /\ LastCall.cmd = "touch" => Untouched(i)
        /\ LastCall.cmd = "SetFile" => OnlyModified(i)

C2_Witness ==
    /\ CallFailed
    /\ LastCall.cmd = "SetFile"
    /\ i = 2
    /\ N = 3

\* C3 as stated: every failure of a timestamp-setting call is reported and
\* ends the run in the aborted state by a normal return, never by an
\* exception that leaves the function.
C3_AsStated ==
    CallFailed =>
        /\ outcome = "AbortedOnError"
        /\ \E k \in DOMAIN output :
              output[k].msg = "Error updating" /\ output[k].path = LastCall.path

\* C4 as stated: the timestamp passed to the calls for the file at sorted
\* position k is exactly start + (k - 1) * increment minutes.
C4_AsStated ==
    \A j \in DOMAIN calls :
        calls[j].date * MicrosPerSecond = AssignedMicros(PositionOf(calls[j].path))

\* C4 amended: the timestamp passed to the calls for the file at sorted
\* position k is start + (k - 1) * increment minutes cut to the whole second,
\* so the timestamps passed to consecutive files differ by exactly increment
\* minutes and grow strictly, in completed and in aborted runs.
C4_Spacing ==
    /\ \A j \in DOMAIN calls :
          calls[j].date = AssignedMicros(PositionOf(calls[j].path)) \div MicrosPerSecond
    /\ \A j, k \in DOMAIN calls :
          PositionOf(calls[k].path) = PositionOf(calls[j].path) + 1 =>
              /\ calls[k].date - calls[j].date = increment_minutes * SecondsPerMinute
              /\ calls[k].date > calls[j].date

C4_Witness ==
    /\ Finished
    /\ outcome = "AbortedOnError"
    /\ Len(calls) >= 5
    /\ start_date.micros % MicrosPerSecond # 0

\* C5 as stated: every configuration error is reported as such and stops the
\* run with no timestamp-setting call issued.
C5_AsStated ==
    HasConfigError =>
        /\ calls = <<>>
        /\ Finished => outcome = "ConfigError"

\* C5 amended: with a configuration error no timestamp-setting call is issued
\* and no file changes, whatever the folder holds; the run ends reporting the
\* error, except that an unparseable start date in a valid folder with a
\* positive increment and no matching file ends with the 'no files found'
\* message instead.
C5_NoMutation ==
    HasConfigError =>
        /\ calls = <<>>
        /\ \A p \in DOMAIN fs : fs[p] = [mtime |-> Original, birthtime |-> Original]
        /\ Finished =>
              \/ /\ outcome = "ConfigError"
                 /\ Len(output) = 1
                 /\ output[1].msg \in ConfigMessages
              \/ /\ outcome = "EmptyStop"
                 /\ folder.isdir /\ increment_minutes > 0
                 /\ start_date.type = "str"
                 /\ Selected = {}

C5_Witness ==
    /\ Finished
    /\ outcome = "ConfigError"
    /\ folder.isdir /\ increment_minutes > 0
    /\ start_date.type = "str" /\ ~start_date.wellformed
    /\ N >= 2

\* C6: in a valid folder with a positive increment where no entry passes the
\* filter, no call is issued and the run ends cleanly with the 'no files
\* found' message alone, for every start date argument, unparseable included.
C6_EmptyStop ==
    (folder.isdir /\ increment_minutes > 0 /\ Selected = {}) =>
        /\ calls = <<>>
        /\ Finished =>
              /\ outcome = "EmptyStop"
              /\ output = << Message("No image files found in the directory") >>

C6_Witness ==
    /\ Finished
    /\ outcome = "EmptyStop"
    /\ entries # {}
    /\ start_date.type = "str" /\ ~start_date.wellformed

\* C7: an entry the scan has seen is collected if and only if it is a file
\* whose lowercased extension is in the active extension set (the default
\* or the caller's), so after the scan the list holds exactly those entries.
C7_Filter ==
    /\ \A e \in entries \ unscanned :
          PathOf(e) \in Range(image_files) <=>
              (e.is_file /\ Lower(SplitExt(e.name)) \in ActiveExtensions)
    /\ Len(image_files) = Cardinality(Range(image_files))

C7_Witness ==
    /\ pc = "empty_check"
    /\ extensions = NoneValue
    /\ \E e \in entries : e.name = <<"a",".","J","P","G">> /\ PathOf(e) \in Range(image_files)
    /\ \E e \in entries : e.name = <<"d",".","b","m","p">> /\ PathOf(e) \notin Range(image_files)

\* C8: whatever order the scan yields, after the sort the list is the
\* selected paths in ascending case-sensitive code-point order (img10.jpg
\* before img9.jpg), and the calls follow that order.
C8_SortedOrder ==
    (pc \notin {"validate", "scan"} /\ unscanned = {}) =>
        /\ Range(image_files) = { PathOf(e) : e \in Selected }
        /\ \A j, k \in DOMAIN image_files :
              j < k => CodePointBefore(image_files[j], image_files[k])
        /\ \A j, k \in DOMAIN image_files :
              (BaseName(image_files[j]) = Img10 /\ BaseName(image_files[k]) = Img9) => j < k
        /\ \A j \in DOMAIN calls : calls[j].path = image_files[(j + 1) \div 2]

C8_Witness ==
    /\ outcome = "Completed"
    /\ N = 3
    /\ BaseName(image_files[1]) = <<"B",".","j","p","g">>
    /\ BaseName(image_files[2]) = <<"a",".","J","P","G">>
    /\ BaseName(image_files[3]) = <<"b",".","j","p","g">>

\* C9: the calls alternate, modification time first and creation time second
\* for the same file with the same timestamp, the second only after the first
\* succeeded; a progress line exists, and current_date has advanced by one
\* increment, only for files whose two calls both succeeded.
C9_CallOrder ==
    /\ \A j \in DOMAIN calls :
          IF j % 2 = 1
          THEN calls[j].cmd = "touch"
          ELSE /\ calls[j].cmd = "SetFile"
               /\ calls[j - 1].result = "ok"
               /\ calls[j - 1].path = calls[j].path
               /\ calls[j - 1].date = calls[j].date
    /\ Cardinality(ProgressLines) <= Cardinality(FilesDone)
    /\ Resolved =>
          \E a \in 0..Cardinality(ProgressLines) :
              current_date = start_date.micros + a * increment_minutes * MicrosPerMinute

C9_Witness ==
    /\ CallFailed
    /\ LastCall.cmd = "SetFile"
    /\ i = 2
    /\ Cardinality(ProgressLines) = 1
    /\ current_date = start_date.micros + increment_minutes * MicrosPerMinute

\* C10 as stated: every run ends in exactly one of config error, EmptyStop,
\* Completed and AbortedOnError, and in Completed if and only if both calls
\* succeeded for all the selected files, two calls per file in sorted order.
C10_AsStated ==
    Finished =>
        /\ outcome \in {"ConfigError", "EmptyStop", "Completed", "AbortedOnError"}
        /\ outcome = "Completed" <=>
              (Resolved /\ Len(calls) = 2 * N /\ \A j \in DOMAIN calls : calls[j].result = "ok")
        /\ outcome = "Completed" =>
              \A j \in DOMAIN calls : calls[j].path = image_files[(j + 1) \div 2]

====
